---- MODULE Spec2Model ----
(***************************************************************************)
(* CycleSafe AI: the sensor-ingest and alert-aggregation pipeline of the   *)
(* two Streamlit scripts, cycling_safety_main.py (the "basic" variant) and *)
(* gopro_cycling_safety.py (the "gopro" variant).                          *)
(*                                                                         *)
(* One script execution that finds st.session_state.running set creates a  *)
(* frame queue and an alert queue of its own, starts one daemon thread per *)
(* sensor and then runs the processing loop on the script thread.  The     *)
(* threads of an execution keep the queues of that execution; the session  *)
(* state (running, alerts, detection_count, gopro_status) is shared by all *)
(* executions and all threads.  An execution is numbered by gen.           *)
(*                                                                         *)
(* Streamlit ends a script execution only inside an st.* element call, so  *)
(* a button click or a widget change takes effect when the processing loop *)
(* is at alert_placeholder.markdown or at a placeholder's image call.      *)
(***************************************************************************)
EXTENDS Integers, Sequences, FiniteSets, TLC

VARIABLES
    variant,          \* which of the two scripts is run: "basic" or "gopro"
    cameras,          \* the device behind each camera: "ok", "absent", "flaky"
    enable_audio,     \* the "Enable Audio Monitoring" checkbox
    running,          \* st.session_state.running
    alerts,           \* st.session_state.alerts
    detection_count,  \* st.session_state.detection_count
    gopro_status,     \* st.session_state.gopro_status (gopro variant)
    gen,              \* number of executions that entered "if running"
    frame_queue,      \* frame_queue of each execution
    alert_queue,      \* alert_queue of each execution
    wpc,              \* where each thread of each execution stands
    pending,          \* thread local: observations still to be alerted
    tmp,              \* thread local: the value read by "+= 1"
    released,         \* camera thread: cap.release() has been called
    mpc,              \* where the script thread stands
    frame,            \* script thread local: position of the frame just taken
    view,             \* what alert_placeholder shows
    budget,           \* sensor units the devices still deliver, per source
    nPushed,          \* history: alerts each thread has put so far
    nDequeued,        \* history: alerts taken from alert queues so far
    lastDeq,          \* history: push number of the last alert taken, per thread
    incs,             \* history: "+= 1" completed by a thread in its cycle
    cyclePuts,        \* history: alerts put by a thread in its cycle
    readFailed,       \* history: a cap.read() of the thread returned no frame
    probe             \* a detector call on its own: its input and its result

session == <<running, alerts, detection_count, gopro_status>>
queues == <<frame_queue, alert_queue>>
threads == <<wpc, pending, tmp, released>>
script == <<mpc, frame, view>>
history == <<nPushed, nDequeued, lastDeq, incs, cyclePuts, readFailed>>

\* what no step of the pipeline changes
config == <<variant, cameras, probe>>

vars == <<config, enable_audio, gen, budget, session, queues, threads, script,
          history>>

----------------------------------------------------------------------------
(* Bounds of the model *)

\* script executions that start threads (start clicks and reruns while running)
MaxGen == 2
\* sensor units delivered in a session of several executions, per source
MaxFrames == 1
MaxChunks == 1
\* units among them that hold a danger the worker alerts on
MaxDangers == 1
\* chunks (each may hold dangers) delivered in the race scenario
MaxRaceChunks == 2
\* largest capacity of the alert queue that the alert scenario can refute
MaxAlertCap == 3
\* frames of each camera delivered in the fault scenario
MaxFaultFrames == 1
\* frames and chunks delivered in the alert scenario, and the dangers in them
MaxBasicFrames == 5
MaxGoProFrames == 2
MaxAlertChunks == 1
\* frames the front camera delivers in the display scenario
MaxDisplayFrames == 12

(* Program constants *)

\* queue.Queue(maxsize=10)
FrameQueueCap == 10
\* st.session_state.alerts[:5] and [:3]
BasicHistoryCap == 5
GoProHistoryCap == 3
\* frame area of the modelled frames, in area units
FrameArea == 100

Variants == {"basic", "gopro"}
Positions == {"front", "rear"}
Sources == {"front", "rear", "audio"}
Gens == 1..MaxGen
Workers == Gens \X Sources

HistoryCap(v) == IF v = "basic" THEN BasicHistoryCap ELSE GoProHistoryCap

----------------------------------------------------------------------------
(* The detectors *)

\* (mutation of BasicLevel: the two comparisons are exchanged)
BasicLevelExchanged(car_area, frame_area) ==
    IF car_area * 100 > 15 * frame_area
    THEN (IF car_area * 10 > 3 * frame_area THEN "medium" ELSE "high")
    ELSE "low"

\* CameraDangerDetector.detect_dangers: the level of one detection from
\* relative_size = car_area / frame_area, compared as exact fractions
BasicLevel(car_area, frame_area) ==
    IF car_area * 10 > 3 * frame_area THEN "high"
    ELSE IF car_area * 100 > 15 * frame_area THEN "medium"
    ELSE "low"

\* EnhancedDangerDetector.detect_dangers: the level of one detection
GoProLevel(obj_area, frame_area) ==
    IF obj_area * 100 > 35 * frame_area THEN "critical"
    ELSE IF obj_area * 10 > 2 * frame_area THEN "high"
    ELSE IF obj_area * 10 > 1 * frame_area THEN "medium"
    ELSE "low"

\* detect_dangers over the detections of one frame (box areas, in order)
detect_dangers(v, dets) ==
    [i \in 1..Len(dets) |->
        [type  |-> "vehicle",
         level |-> IF v = "basic" THEN BasicLevel(dets[i], FrameArea)
                   ELSE GoProLevel(dets[i], FrameArea)]]

\* the list comprehensions [d for d in dangers if d['level'] ...]
RECURSIVE SelectLevels(_, _)
SelectLevels(dangers, levels) ==
    IF dangers = <<>> THEN <<>>
    ELSE IF Head(dangers).level \in levels
         THEN <<Head(dangers)>> \o SelectLevels(Tail(dangers), levels)
         ELSE SelectLevels(Tail(dangers), levels)

\* high_dangers (basic) and critical_dangers (gopro)
AlertLevels(v) == IF v = "basic" THEN {"high"} ELSE {"critical", "high"}

\* AudioDangerDetector.analyze_audio of the basic variant, on the measurements
\* of one chunk (rms in hundredths): the observation the worker alerts on
BasicAnalyzeAudio(m) ==
    IF m.horn > 1000 THEN <<[type |-> "horn_detected", level |-> "medium"]>>
    ELSE IF m.rms > 30 THEN <<[type |-> "loud_noise", level |-> "medium"]>>
    ELSE <<>>

\* AudioDangerDetector.analyze_audio of the gopro variant: the dangers list
GoProAnalyzeAudio(m) ==
    (IF m.rms > 25 THEN <<[type |-> "loud_noise", level |-> "high"]>> ELSE <<>>)
    \o (IF m.horn > 800 THEN <<[type |-> "horn", level |-> "critical"]>> ELSE <<>>)
    \o (IF m.siren > 1000 THEN <<[type |-> "siren", level |-> "critical"]>> ELSE <<>>)

analyze_audio(v, m) ==
    IF v = "basic" THEN BasicAnalyzeAudio(m) ELSE GoProAnalyzeAudio(m)

(* Inputs: what one frame and one chunk can hold *)

\* a frame with one small box, and a frame with a small box and two large
\* ones (two that the basic variant rates high)
FrameInputs == {<<12>>, <<12, 35, 40>>}

\* no detector call on its own is made in the pipeline scenarios
NoProbe == [fn |-> "none"]

AudioInputs ==
    {[rms |-> 0,  horn |-> 0, siren |-> 0],
     [rms |-> 40, horn |-> 0, siren |-> 1200]}

----------------------------------------------------------------------------
(* The queues (queue.Queue) *)

\* (mutation of CanPut: maxsize is ignored)
CanPutAlways(q, maxsize) == TRUE

\* Queue.put with maxsize: the caller waits while the queue is full
CanPut(q, maxsize) == Len(q) < maxsize

\* (mutation of QueuePut: the item goes to the head)
QueuePutFirst(q, item) == <<item>> \o q

QueuePut(q, item) == Append(q, item)

\* Queue.get: the item at the head
QueueHead(q) == Head(q)

QueueRest(q) == Tail(q)

----------------------------------------------------------------------------
(* Session state initialisation and the sensor threads *)

\* "if 'running' not in st.session_state: ..." and the state before any click
InitSession ==
    /\ variant \in Variants
    /\ enable_audio = TRUE
    /\ running = FALSE
    /\ alerts = <<>>
    /\ detection_count = [s \in Sources |-> 0]
    /\ gopro_status = [p \in Positions |-> FALSE]
    /\ gen = 0
    /\ frame_queue = [g \in Gens |-> <<>>]
    /\ alert_queue = [g \in Gens |-> <<>>]
    /\ wpc = [w \in Workers |-> "idle"]
    /\ pending = [w \in Workers |-> <<>>]
    /\ tmp = [w \in Workers |-> 0]
    /\ released = [w \in Workers |-> FALSE]
    /\ mpc = "idle"
    /\ frame = "none"
    /\ view = [box |-> "none"]
    /\ nPushed = [w \in Workers |-> 0]
    /\ nDequeued = 0
    /\ lastDeq = [w \in Workers |-> 0]
    /\ incs = [w \in Workers |-> 0]
    /\ cyclePuts = [w \in Workers |-> 0]
    /\ readFailed = [w \in Workers |-> FALSE]

\* the devices deliver a bounded number of frames and chunks, and a bounded
\* number of them hold a danger that is alerted
CanDeliver(s, found) ==
    /\ budget[s] > 0
    /\ found # <<>> => budget["dangers"] > 0

Deliver(s, found) ==
    [budget EXCEPT ![s] = @ - 1,
                   !["dangers"] = IF found # <<>> THEN @ - 1 ELSE @]

\* the budget of a scenario
Budget(front, rear, audio, dangers) ==
    [k \in Sources \cup {"dangers"} |->
        IF k = "front" THEN front
        ELSE IF k = "rear" THEN rear
        ELSE IF k = "audio" THEN audio ELSE dangers]

\* the devices of the scenarios: a front camera that delivers frames and a
\* rear camera that is not connected
FrontOnly == [p \in Positions |-> IF p = "front" THEN "ok" ELSE "absent"]

Init ==
    /\ InitSession
    /\ probe = NoProbe
    /\ cameras = FrontOnly
    /\ budget = Budget(MaxFrames, 0, MaxChunks, MaxDangers)

\* the alert dict a worker puts; g and n record who put it and in what order
MakeAlert(w, obs) ==
    [position |-> w[2], type |-> obs.type, level |-> obs.level,
     g |-> w[1], n |-> nPushed[w] + 1]

\* (mutation of StreamOpens: every stream counts as opened)
StreamOpensAlways(device) == {TRUE}

\* whether the stream of a device opens (connect, get_stream, isOpened)
StreamOpens(device) == IF device = "absent" THEN {FALSE} ELSE {TRUE}

\* what cap.read() returns as ret: a device that is absent gives no frame, a
\* flaky one may fail at any read
ReadResults(device) ==
    IF device = "absent" THEN {FALSE}
    ELSE IF device = "flaky" THEN {TRUE, FALSE} ELSE {TRUE}

\* process_gopro_camera: cap = gopro.get_stream() and the check that follows
OpenStream(w) ==
    /\ wpc[w] = "open"
    /\ \E opened \in StreamOpens(cameras[w[2]]) :
        /\ gopro_status' = [gopro_status EXCEPT ![w[2]] = opened]
        /\ wpc' = [wpc EXCEPT ![w] = IF opened THEN "loop" ELSE "unavailable"]
    /\ UNCHANGED <<config, enable_audio, gen, budget, running, alerts, detection_count,
                   queues, pending, tmp, released, script, history>>

\* leaving the camera loop: cap.release()
CameraExit(w) ==
    /\ wpc' = [wpc EXCEPT ![w] = "done"]
    /\ released' = [released EXCEPT ![w] = TRUE]
    /\ UNCHANGED <<config, enable_audio, gen, budget, session, queues, pending, tmp,
                   script, history>>

\* (mutation of ReadFailure: the failure also ends the run)
ReadFailureEndsRun(w) ==
    /\ readFailed' = [readFailed EXCEPT ![w] = TRUE]
    /\ wpc' = [wpc EXCEPT ![w] = "done"]
    /\ released' = [released EXCEPT ![w] = TRUE]
    /\ running' = FALSE
    /\ UNCHANGED <<config, enable_audio, gen, budget, alerts, detection_count,
                   gopro_status, queues, pending, tmp, script, nPushed,
                   nDequeued, lastDeq, incs, cyclePuts>>

\* "if not ret": the basic worker breaks out of its loop and releases the
\* capture, the gopro worker sleeps and goes on with the next pass
ReadFailure(w) ==
    /\ readFailed' = [readFailed EXCEPT ![w] = TRUE]
    /\ IF variant = "basic"
       THEN /\ wpc' = [wpc EXCEPT ![w] = "done"]
            /\ released' = [released EXCEPT ![w] = TRUE]
       ELSE UNCHANGED <<wpc, released>>
    /\ UNCHANGED <<config, enable_audio, gen, budget, session, queues, pending,
                   tmp, script, nPushed, nDequeued, lastDeq, incs, cyclePuts>>

\* one pass of "while st.session_state.running": cap.read() and detect_dangers
CameraRead(w) ==
    /\ w[2] \in Positions
    /\ wpc[w] = "loop"
    /\ IF ~running
       THEN CameraExit(w)
       ELSE \E ret \in ReadResults(cameras[w[2]]) :
              IF ~ret
              THEN ReadFailure(w)
              ELSE /\ \E dets \in FrameInputs :
                        LET found == SelectLevels(detect_dangers(variant, dets),
                                                  AlertLevels(variant))
                        IN  /\ CanDeliver(w[2], found)
                            /\ pending' = [pending EXCEPT ![w] = found]
                            /\ budget' = Deliver(w[2], found)
                   /\ wpc' = [wpc EXCEPT ![w] = "put_frame"]
                   /\ UNCHANGED <<config, enable_audio, gen, session, queues, tmp, released,
                                  script, history>>

\* frame_queue.put((position, processed_frame))
PutFrame(w) ==
    /\ wpc[w] = "put_frame"
    /\ CanPut(frame_queue[w[1]], FrameQueueCap)
    /\ frame_queue' = [frame_queue EXCEPT ![w[1]] = QueuePut(@, w[2])]
    /\ wpc' = [wpc EXCEPT ![w] = IF pending[w] # <<>> THEN "put_alert" ELSE "loop"]
    /\ UNCHANGED <<config, enable_audio, gen, budget, session, alert_queue, pending, tmp,
                   released, script, history>>

\* one pass of the audio loop: sd.rec, sd.wait and analyze_audio
AudioRecord(w) ==
    /\ w[2] = "audio"
    /\ wpc[w] = "loop"
    /\ IF ~running
       THEN /\ wpc' = [wpc EXCEPT ![w] = "done"]
            /\ UNCHANGED <<budget, pending>>
       ELSE \E m \in AudioInputs :
                 /\ CanDeliver("audio", analyze_audio(variant, m))
                 /\ pending' = [pending EXCEPT ![w] = analyze_audio(variant, m)]
                 /\ wpc' = [wpc EXCEPT ![w] =
                        IF analyze_audio(variant, m) # <<>> THEN "put_alert"
                        ELSE "loop"]
                 /\ budget' = Deliver("audio", analyze_audio(variant, m))
    /\ UNCHANGED <<config, enable_audio, gen, session, queues, tmp, released,
                   script, history>>

\* the observation the next alert_queue.put is built from
NextObservation(w) ==
    IF variant = "basic" /\ w[2] \in Positions
    THEN [type |-> "vehicle_close", level |-> "high"]
    ELSE Head(pending[w])

\* the observations left once that alert is put: the basic variant puts one
\* alert per cycle, the gopro variant one per observation
RestObservations(w) ==
    IF variant = "basic" THEN <<>> ELSE Tail(pending[w])

\* where a worker goes after alert_queue.put: the gopro camera worker puts
\* all its alerts before it counts, every other worker counts after each put
AfterPut(w) ==
    IF variant = "gopro" /\ w[2] \in Positions /\ RestObservations(w) # <<>>
    THEN "put_alert"
    ELSE "count_read"

\* alert_queue.put({...}); the alert queue has no maxsize
PutAlert(w) ==
    /\ wpc[w] = "put_alert"
    /\ alert_queue' = [alert_queue EXCEPT ![w[1]] =
                          QueuePut(@, MakeAlert(w, NextObservation(w)))]
    /\ pending' = [pending EXCEPT ![w] = RestObservations(w)]
    /\ nPushed' = [nPushed EXCEPT ![w] = @ + 1]
    /\ cyclePuts' = [cyclePuts EXCEPT ![w] = @ + 1]
    /\ wpc' = [wpc EXCEPT ![w] = AfterPut(w)]
    /\ UNCHANGED <<config, enable_audio, gen, budget, session, frame_queue, tmp, released,
                   script, nDequeued, lastDeq, incs, readFailed>>

\* st.session_state.detection_count[position] += 1, the read
CountRead(w) ==
    /\ wpc[w] = "count_read"
    /\ tmp' = [tmp EXCEPT ![w] = detection_count[w[2]]]
    /\ wpc' = [wpc EXCEPT ![w] = "count_write"]
    /\ UNCHANGED <<config, enable_audio, gen, budget, session, queues, pending, released,
                   script, history>>

\* the value "+= 1" stores
\* (mutation of Incremented: the counter goes up by two)
IncrementedTwice(n) == n + 2

Incremented(n) == n + 1

\* where a worker goes after "+= 1": the gopro audio worker counts inside its
\* for loop, every other worker at the end of its cycle
AfterCount(w) == IF pending[w] # <<>> THEN "put_alert" ELSE "loop"

\* st.session_state.detection_count[position] += 1, the write; a cycle that
\* ends here clears the cycle's history
CountWrite(w) ==
    /\ wpc[w] = "count_write"
    /\ detection_count' = [detection_count EXCEPT ![w[2]] = Incremented(tmp[w])]
    /\ tmp' = [tmp EXCEPT ![w] = 0]
    /\ wpc' = [wpc EXCEPT ![w] = AfterCount(w)]
    /\ incs' = [incs EXCEPT ![w] = IF AfterCount(w) = "loop" THEN 0 ELSE @ + 1]
    /\ cyclePuts' = [cyclePuts EXCEPT ![w] =
                        IF AfterCount(w) = "loop" THEN 0 ELSE @]
    /\ UNCHANGED <<config, enable_audio, gen, budget, running, alerts, gopro_status, queues,
                   pending, released, script, nPushed, nDequeued, lastDeq,
                   readFailed>>

----------------------------------------------------------------------------
(* The script thread: the controls, thread start-up and the processing loop *)

\* the threads an execution starts on its own queues; the threads of earlier
\* executions are left as they are
StartThreads(g, audio) ==
    [w \in Workers |->
        IF w[1] # g THEN wpc[w]
        ELSE IF w[2] \in Positions
             THEN (IF variant = "gopro" THEN "open" ELSE "loop")
             ELSE (IF audio THEN "loop" ELSE "idle")]

\* "if st.session_state.running:" down to the processing loop
Launch(g) ==
    /\ gen' = g
    /\ wpc' = StartThreads(g, enable_audio')
    /\ mpc' = "drain"
    /\ frame' = "none"
    /\ view' = [box |-> "none"]

\* the script can be ended where it calls an st.* element
AtElementCall == mpc \in {"display", "render"}

\* (mutation of Start: the button is served whatever running is)
StartAnyTime ==
    /\ gen < MaxGen
    /\ running' = TRUE
    /\ enable_audio' = enable_audio
    /\ Launch(gen + 1)
    /\ UNCHANGED <<config, budget, alerts, detection_count, gopro_status,
                   queues, pending, tmp, released, history>>

\* "Start Monitoring" clicked: running = True, st.rerun(), and the execution
\* that follows
Start ==
    /\ mpc = "idle"
    /\ ~running
    /\ gen < MaxGen
    /\ running' = TRUE
    /\ enable_audio' = enable_audio
    /\ Launch(gen + 1)
    /\ UNCHANGED <<config, budget, alerts, detection_count, gopro_status,
                   queues, pending, tmp, released, history>>

\* (mutation of Stop: the history and the counters are initialised again)
StopAndReset ==
    /\ AtElementCall
    /\ running
    /\ running' = FALSE
    /\ mpc' = "idle"
    /\ frame' = "none"
    /\ view' = [box |-> "none"]
    /\ alerts' = <<>>
    /\ detection_count' = [s \in Sources |-> 0]
    /\ UNCHANGED <<config, enable_audio, gen, budget, gopro_status, queues,
                   threads, history>>

\* "Stop Monitoring" clicked: the loop's execution ends, running = False,
\* st.rerun(), and the execution that follows shows the welcome screen
Stop ==
    /\ AtElementCall
    /\ running
    /\ running' = FALSE
    /\ mpc' = "idle"
    /\ frame' = "none"
    /\ view' = [box |-> "none"]
    /\ UNCHANGED <<config, enable_audio, gen, budget, alerts, detection_count, gopro_status,
                   queues, threads, history>>

\* a sidebar widget changed while running (the audio checkbox or another
\* one): the loop's execution ends and the script runs again from the top
\* with running still True
Rerun ==
    /\ AtElementCall
    /\ running
    /\ gen < MaxGen
    /\ \E audio \in BOOLEAN : enable_audio' = audio
    /\ Launch(gen + 1)
    /\ UNCHANGED <<config, budget, session, queues, pending, tmp, released,
                   history>>

\* the audio checkbox changed while not running: the script runs again and
\* shows the welcome screen
ToggleAudio ==
    /\ mpc = "idle"
    /\ ~running
    /\ enable_audio' = ~enable_audio
    /\ UNCHANGED <<config, gen, budget, session, queues, threads, script,
                   history>>

\* (mutation of HistoryInsert: append instead of insert(0, ...))
HistoryAppend(h, alert, k) ==
    h \o <<[position |-> alert.position, type |-> alert.type,
            level |-> alert.level, g |-> alert.g, n |-> alert.n, dq |-> k]>>

\* st.session_state.alerts.insert(0, alert); dq records the order of dequeuing
HistoryInsert(h, alert, k) ==
    <<[position |-> alert.position, type |-> alert.type, level |-> alert.level,
       g |-> alert.g, n |-> alert.n, dq |-> k]>> \o h

\* (mutation of HistoryTruncate: the slice keeps one alert too many)
HistoryTruncateLate(h, cap) ==
    SubSeq(h, 1, IF Len(h) < cap + 1 THEN Len(h) ELSE cap + 1)

\* st.session_state.alerts[:cap]
HistoryTruncate(h, cap) ==
    SubSeq(h, 1, IF Len(h) < cap THEN Len(h) ELSE cap)

\* "while not alert_queue.empty():" with alert_queue.get() and the insert
Drain ==
    /\ mpc = "drain"
    /\ IF alert_queue[gen] # <<>>
       THEN /\ alerts' = HistoryInsert(alerts, QueueHead(alert_queue[gen]),
                                       nDequeued + 1)
            /\ alert_queue' = [alert_queue EXCEPT ![gen] = QueueRest(@)]
            /\ nDequeued' = nDequeued + 1
            /\ lastDeq' = [lastDeq EXCEPT
                  ![<<QueueHead(alert_queue[gen]).g,
                      QueueHead(alert_queue[gen]).position>>] =
                      QueueHead(alert_queue[gen]).n]
            /\ mpc' = "truncate"
       ELSE /\ mpc' = "display"
            /\ UNCHANGED <<alerts, alert_queue, nDequeued, lastDeq>>
    /\ UNCHANGED <<config, enable_audio, gen, budget, running, detection_count,
                   gopro_status, frame_queue, threads, frame, view, nPushed,
                   incs, cyclePuts, readFailed>>

\* st.session_state.alerts = st.session_state.alerts[:5] (basic), [:3] (gopro)
Truncate ==
    /\ mpc = "truncate"
    /\ alerts' = HistoryTruncate(alerts, HistoryCap(variant))
    /\ mpc' = "drain"
    /\ UNCHANGED <<config, enable_audio, gen, budget, running, detection_count,
                   gopro_status, queues, threads, frame, view, history>>

\* the css class of the alert box
AlertClass(v, level) ==
    IF v = "basic"
    THEN (IF level = "high" THEN "danger" ELSE "warning")
    ELSE (IF level \in {"critical", "high"} THEN "danger" ELSE "warning")

\* (mutation of LatestAlertView: the oldest alert is shown)
OldestAlertView(v, h) ==
    IF h # <<>>
    THEN [box |-> AlertClass(v, h[Len(h)].level), alert |-> h[Len(h)]]
    ELSE [box |-> "safe"]

\* what alert_placeholder.markdown is given
LatestAlertView(v, h) ==
    IF h # <<>>
    THEN [box |-> AlertClass(v, h[1].level), alert |-> h[1]]
    ELSE [box |-> "safe"]

\* "if st.session_state.alerts: ... else: ..." (display of the latest alert)
Display ==
    /\ mpc = "display"
    /\ view' = LatestAlertView(variant, alerts)
    /\ mpc' = "feed"
    /\ UNCHANGED <<config, enable_audio, gen, budget, session, queues, threads, frame,
                   history>>

\* the loop condition "while st.session_state.running", read after a pass
LoopAgain == IF running THEN "drain" ELSE "idle"

\* position, frame = frame_queue.get(timeout=1), or queue.Empty
Feed ==
    /\ mpc = "feed"
    /\ IF frame_queue[gen] # <<>>
       THEN /\ frame' = QueueHead(frame_queue[gen])
            /\ frame_queue' = [frame_queue EXCEPT ![gen] = QueueRest(@)]
            /\ mpc' = "render"
       ELSE /\ mpc' = LoopAgain
            /\ UNCHANGED <<frame, frame_queue>>
    /\ UNCHANGED <<config, enable_audio, gen, budget, session, alert_queue, threads, view,
                   history>>

\* the placeholder a taken frame is drawn in
Placeholder(position) == IF position = "front" THEN "front" ELSE "rear"

\* front_placeholder.image(...) or rear_placeholder.image(...); time.sleep
Render ==
    /\ mpc = "render"
    /\ frame' = "none"
    /\ mpc' = LoopAgain
    /\ UNCHANGED <<config, enable_audio, gen, budget, session, queues, threads, view,
                   history>>

----------------------------------------------------------------------------
(* The specifications *)

WorkerStep(w) ==
    \/ OpenStream(w)
    \/ CameraRead(w)
    \/ PutFrame(w)
    \/ AudioRecord(w)
    \/ PutAlert(w)
    \/ CountRead(w)
    \/ CountWrite(w)

ScriptStep == Drain \/ Truncate \/ Display \/ Feed \/ Render

\* a session with start clicks, stop clicks and reruns
Next ==
    \/ Start
    \/ Stop
    \/ Rerun
    \/ ToggleAudio
    \/ ScriptStep
    \/ \E w \in Workers : WorkerStep(w)

Spec == Init /\ [][Next]_vars

\* a session in which monitoring is started once and may be stopped
StartOnce == gen = 0 /\ Start

NextOneRun ==
    \/ StartOnce
    \/ Stop
    \/ ScriptStep
    \/ \E w \in Workers : WorkerStep(w)

\* the alert scenario: enough alerting frames and chunks to overflow the history
InitAlerts ==
    /\ InitSession
    /\ probe = NoProbe
    /\ cameras = FrontOnly
    /\ budget = IF variant = "basic"
                THEN Budget(MaxBasicFrames, 0, MaxAlertChunks,
                            MaxBasicFrames + MaxAlertChunks)
                ELSE Budget(MaxGoProFrames, 0, MaxAlertChunks,
                            MaxGoProFrames + MaxAlertChunks)

SpecAlerts == InitAlerts /\ [][NextOneRun]_vars

\* the race scenario: several executions and enough chunks for two audio
\* threads to count at the same time
InitRace ==
    /\ InitSession
    /\ probe = NoProbe
    /\ cameras = FrontOnly
    /\ budget = Budget(MaxFrames, 0, MaxRaceChunks, MaxRaceChunks)

SpecRace == InitRace /\ [][Next]_vars

\* the display scenario: enough frames to fill the frame queue
InitDisplay ==
    /\ InitSession
    /\ probe = NoProbe
    /\ cameras = [p \in Positions |-> "ok"]
    /\ budget = Budget(MaxDisplayFrames, 1, 1, 1)

SpecDisplay == InitDisplay /\ [][NextOneRun]_vars

\* the fault scenario: a front camera that cannot be opened or whose reads
\* can fail, next to a rear camera and a microphone that work
FaultyFront ==
    {[p \in Positions |-> IF p = "front" THEN d ELSE "ok"] :
        d \in {"absent", "flaky"}}

InitFaults ==
    /\ InitSession
    /\ probe = NoProbe
    /\ cameras \in FaultyFront
    /\ budget = Budget(MaxFaultFrames, MaxFaultFrames, 1, MaxFaultFrames)

SpecFaults == InitFaults /\ [][NextOneRun]_vars

\* the detectors on their own: every pair of box areas in a frame, and every
\* chunk whose measurements lie on or next to a threshold
BoxAreas == 1..FrameArea
RmsLevels == {0, 25, 26, 30, 31, 40}
HornEnergies == {0, 800, 801, 1000, 1001, 1200}
SirenEnergies == {0, 1000, 1001, 1200}

Chunks == [rms : RmsLevels, horn : HornEnergies, siren : SirenEnergies]

DetectorCalls ==
    {[fn |-> "detect_dangers", v |-> v, dets |-> <<a, b>>, out |-> <<>>,
      done |-> FALSE] : v \in Variants, a \in BoxAreas, b \in BoxAreas}
    \cup
    {[fn |-> "analyze_audio", v |-> v, m |-> m, out |-> <<>>,
      done |-> FALSE] : v \in Variants, m \in Chunks}

InitDetect ==
    /\ InitSession
    /\ cameras = FrontOnly
    /\ budget = Budget(0, 0, 0, 0)
    /\ probe \in DetectorCalls
    /\ variant = probe.v

\* detector.detect_dangers(frame)
DetectFrame ==
    /\ probe.fn = "detect_dangers"
    /\ ~probe.done
    /\ probe' = [probe EXCEPT !.out = detect_dangers(probe.v, probe.dets),
                              !.done = TRUE]
    /\ UNCHANGED <<variant, cameras, enable_audio, gen, budget, session,
                   queues, threads, script, history>>

\* detector.analyze_audio(audio_data)
AnalyzeChunk ==
    /\ probe.fn = "analyze_audio"
    /\ ~probe.done
    /\ probe' = [probe EXCEPT !.out = analyze_audio(probe.v, probe.m),
                              !.done = TRUE]
    /\ UNCHANGED <<variant, cameras, enable_audio, gen, budget, session,
                   queues, threads, script, history>>

NextDetect == DetectFrame \/ AnalyzeChunk

SpecDetect == InitDetect /\ [][NextDetect]_vars

----------------------------------------------------------------------------
(* Properties *)

\* the thread is inside its while loop
InLoop(w) == wpc[w] \in {"loop", "put_frame", "put_alert", "count_read",
                         "count_write"}

\* the alerts of the history that thread w put
SameProducer(a, b) == a.g = b.g /\ a.position = b.position

\* C1 as claimed: the history holds at most cap alerts in every reachable
\* state, the state between the insert and the slice included
C1_Orig == Len(alerts) <= HistoryCap(variant)

\* C1: the history holds at most cap alerts in every state except between
\* alerts.insert(0, alert) and the slice that follows, where it holds at most
\* cap + 1
C1_HistoryCapped ==
    /\ Len(alerts) <= HistoryCap(variant) + 1
    /\ mpc # "truncate" => Len(alerts) <= HistoryCap(variant)

\* a full history after an insertion that went over the cap and was cut back
C1_Witness ==
    /\ mpc = "drain"
    /\ Len(alerts) = HistoryCap(variant)
    /\ nDequeued > HistoryCap(variant)

\* the history h is ordered most recently dequeued first
RecentFirst(h) ==
    \A i, j \in 1..Len(h) : i < j => h[i].dq > h[j].dq

\* C2: the history is ordered most-recent-first: a dequeued alert is put at
\* index 0, an alert at a lower index was dequeued later, and the alert a
\* slice removes is the one dequeued earliest
C2_MostRecentFirst ==
    [][ /\ RecentFirst(alerts')
        /\ nDequeued' # nDequeued =>
             /\ alerts'[1].dq = nDequeued'
             /\ alerts'[1].n = QueueHead(alert_queue[gen]).n
             /\ alerts'[1].position = QueueHead(alert_queue[gen]).position
             /\ alerts'[1].g = gen
        /\ Len(alerts') < Len(alerts) =>
             \A i \in 1..Len(alerts) :
                (\A j \in 1..Len(alerts') : alerts'[j] # alerts[i])
                => \A j \in 1..Len(alerts') : alerts'[j].dq > alerts[i].dq
      ]_vars

\* a full history, after an eviction, that holds alerts of two sources
C2_Witness ==
    /\ nDequeued > HistoryCap(variant)
    /\ Len(alerts) = HistoryCap(variant)
    /\ \E i, j \in 1..Len(alerts) : alerts[i].position # alerts[j].position

\* the step ends a cycle of thread w
CycleEnds(w) == wpc[w] \in {"put_frame", "count_write"} /\ wpc'[w] = "loop"

\* the "+= 1" of the cycle that the step ends
CycleIncs(w) == incs[w] + (IF wpc[w] = "count_write" THEN 1 ELSE 0)

\* C3 as claimed: a cycle that puts at least one alert counts exactly once,
\* however many observations it alerts on, and a cycle that puts none does
\* not count
C3_Orig ==
    [][\A w \in Workers :
          CycleEnds(w) => CycleIncs(w) = (IF cyclePuts[w] > 0 THEN 1 ELSE 0)
      ]_vars

\* C4 as claimed: no detection counter ever decreases
C4_Orig ==
    [][\A s \in Sources : detection_count'[s] >= detection_count[s]]_vars

\* C5 as claimed: a camera worker at frame_queue.put can always go on, also
\* when the frame queue is full
C5_Orig ==
    \A w \in Workers : wpc[w] = "put_frame" => ENABLED PutFrame(w)

\* C6: a frame queue never holds more than its maxsize
C6_FrameQueueBounded ==
    \A g \in Gens : Len(frame_queue[g]) <= FrameQueueCap

\* a full frame queue with frames of both cameras and a camera thread at put
C6_Witness ==
    \E w \in Workers :
        /\ wpc[w] = "put_frame"
        /\ Len(frame_queue[w[1]]) = FrameQueueCap
        /\ \E i, j \in 1..FrameQueueCap :
              frame_queue[w[1]][i] # frame_queue[w[1]][j]

\* C7 as claimed, for a stop that stays: once running is False every thread
\* inside its loop can go on towards its exit, and a camera thread that left
\* its loop has released its capture
C7_Orig ==
    ~running =>
        \A w \in Workers :
            /\ InLoop(w) => ENABLED WorkerStep(w)
            /\ (wpc[w] = "done" /\ w[2] \in Positions) => released[w]

\* C8 as claimed: an alert waiting in an alert queue is in the queue of the
\* execution whose processing loop is still draining; no alert is left in
\* a queue nobody drains
C8_Orig ==
    \A g \in Gens : alert_queue[g] # <<>> => (g = gen /\ mpc # "idle")

\* C9: the alerts of one thread are dequeued in the order the thread put
\* them, and in the history the one put later is at the lower index
C9_FifoPerProducer ==
    [][ /\ \A w \in Workers :
              lastDeq'[w] # lastDeq[w] => lastDeq'[w] > lastDeq[w]
        /\ \A i, j \in 1..Len(alerts') :
              (i < j /\ SameProducer(alerts'[i], alerts'[j]))
              => alerts'[i].n > alerts'[j].n
      ]_vars

\* two alerts of one thread in the history with another thread's between
C9_Witness ==
    \E i, j, k \in 1..Len(alerts) :
        /\ i < k /\ k < j
        /\ SameProducer(alerts[i], alerts[j])
        /\ ~SameProducer(alerts[i], alerts[k])

\* the step is the display of the latest alert
DisplayStep == mpc = "display" /\ mpc' = "feed"

\* what the display must show
ShowsLatest ==
    /\ view'.box = "safe" <=> alerts = <<>>
    /\ alerts # <<>> => (view'.box # "safe" /\ view'.alert = alerts[1])

\* no alert has been put on the alert queue of the current execution
ChannelUnused == \A s \in Sources : nPushed[<<gen, s>>] = 0

\* the current execution is a run of its own: the threads of the earlier
\* executions have all ended
NewRun == \A w \in Workers : w[1] < gen => ~InLoop(w) /\ wpc[w] # "open"

\* C10 as claimed: the view is "All Clear" exactly when the history is empty
\* and the alert at index 0 otherwise; and the first display of a run whose
\* alert queue is empty is "All Clear"
C10_Orig ==
    [][DisplayStep =>
          /\ ShowsLatest
          /\ (view.box = "none" /\ NewRun /\ ChannelUnused)
             => view'.box = "safe"
      ]_vars

\* C10: the view is "All Clear" exactly when the history is empty and the
\* alert at index 0 otherwise; the first display of a run is "All Clear"
\* when the history is empty, and the latest alert of an earlier run when
\* it is not
C10_LatestAlertView ==
    [][DisplayStep =>
          /\ ShowsLatest
          /\ (view.box = "none" /\ alerts = <<>>) => view'.box = "safe"
          /\ (view.box = "none" /\ alerts # <<>>) => view'.alert = alerts[1]
      ]_vars

\* the second run shows an alert of the first run before any alert of its own
C10_Witness ==
    /\ gen = 2
    /\ NewRun
    /\ ChannelUnused
    /\ mpc = "feed"
    /\ view.box \in {"danger", "warning"}
    /\ view.alert.g = 1

\* the thread has been started and has not returned
Live(w) == InLoop(w) \/ wpc[w] = "open"

\* C11 as claimed: once a stop has made the pipeline idle, no thread started
\* while it was active and no processing loop is still running
C11_Orig ==
    (~running /\ mpc = "idle") => \A w \in Workers : ~Live(w)

\* C12: running is False (idle) or True (active); the start button is served
\* only while idle and the stop button only while active, so a request in
\* the other state changes nothing; running changes only from False to True
\* by a start and from True to False by a stop
C12_TwoStates ==
    /\ [](/\ running \in BOOLEAN
          /\ ENABLED Start => ~running
          /\ ENABLED Stop => running)
    /\ [][ /\ (~running /\ running') =>
                (mpc = "idle" /\ mpc' = "drain" /\ gen' = gen + 1)
           /\ (running /\ ~running') =>
                (AtElementCall /\ mpc' = "idle" /\ gen' = gen)
         ]_vars

\* idle again after two active periods
C12_Witness == ~running /\ gen = 2 /\ mpc = "idle"

\* a detect_dangers call that has returned, and an analyze_audio call
Detected == probe.fn = "detect_dangers" /\ probe.done
Analyzed == probe.fn = "analyze_audio" /\ probe.done

\* the levels as the spec's step function gives them for the breakpoints
\* 0.10, 0.20, 0.35, each interval closed at its lower end
ClaimedGoProLevel(area, frame_area) ==
    IF area * 100 >= 35 * frame_area THEN "critical"
    ELSE IF area * 10 >= 2 * frame_area THEN "high"
    ELSE IF area * 10 >= 1 * frame_area THEN "medium"
    ELSE "low"

\* C13 as claimed: the gopro classifier gives low below 0.10, medium on
\* [0.10, 0.20), high on [0.20, 0.35) and critical from 0.35 on
C13_Orig ==
    (Detected /\ probe.v = "gopro") =>
        \A i \in 1..Len(probe.out) :
            probe.out[i].level = ClaimedGoProLevel(probe.dets[i], FrameArea)

\* the order low < medium < high < critical
Rank(level) ==
    IF level = "low" THEN 0
    ELSE IF level = "medium" THEN 1
    ELSE IF level = "high" THEN 2 ELSE 3

\* C14: in both variants the level is a monotonic function of the relative
\* size: of two detections in frames of the same area, the one that is not
\* larger has a level that is not higher, and equal sizes give equal levels
C14_Monotonic ==
    Detected =>
        \A i, j \in 1..Len(probe.out) :
            probe.dets[i] <= probe.dets[j]
            => Rank(probe.out[i].level) <= Rank(probe.out[j].level)

\* two detections of different sizes that are given different levels
C14_Witness ==
    /\ Detected
    /\ probe.v = "basic"
    /\ probe.dets[1] < probe.dets[2]
    /\ probe.out[1].level = "medium"
    /\ probe.out[2].level = "high"

\* the thresholds of the two analyze_audio (rms in hundredths); the basic
\* variant has no siren band, the reference threshold is taken for it
LoudThreshold(v) == IF v = "basic" THEN 30 ELSE 25
HornThreshold(v) == IF v = "basic" THEN 1000 ELSE 800
SirenThreshold(v) == 1000

\* the levels of the observations when each threshold is evaluated on its own
ClaimedAudioLevels(v, m) ==
    (IF m.rms > LoudThreshold(v) THEN <<"high">> ELSE <<>>)
    \o (IF m.horn > HornThreshold(v) THEN <<"critical">> ELSE <<>>)
    \o (IF m.siren > SirenThreshold(v) THEN <<"critical">> ELSE <<>>)

\* C15 as claimed: a chunk that crosses k of the three thresholds gives k
\* observations, loud_noise at high, horn and siren at critical, and so k
\* alerts of the audio worker; a silent chunk gives none
C15_Orig ==
    Analyzed =>
        /\ Len(probe.out) = Len(ClaimedAudioLevels(probe.v, probe.m))
        /\ \A i \in 1..Len(probe.out) :
              i <= Len(ClaimedAudioLevels(probe.v, probe.m))
              => probe.out[i].level = ClaimedAudioLevels(probe.v, probe.m)[i]

\* the thread could not open its stream, or a read of it has failed
Failed(w) == readFailed[w] \/ wpc[w] = "unavailable"

\* the step is a failure of thread w, or the end of its loop
FailsOrEnds(w) ==
    \/ readFailed'[w] /\ ~readFailed[w]
    \/ wpc'[w] \in {"unavailable", "done"} /\ wpc'[w] # wpc[w]

\* the thread waits for its device: no frame or chunk is left to deliver
WaitsForDevice(w) == wpc[w] = "loop" /\ budget[w[2]] = 0

\* C16: a failure of one sensor thread (its stream does not open, a read
\* fails, its loop ends) changes nothing of another thread, of the queues or
\* of the processing loop; while running, the only threads of the execution
\* that have ended are threads that failed themselves, every other thread
\* can go on with its cycle and the processing loop can go on draining
C16_FaultIsolation ==
    /\ [](running =>
            /\ mpc # "idle"
            /\ ENABLED ScriptStep
            /\ \A w \in Workers :
                  /\ (w[1] = gen /\ wpc[w] \in {"done", "unavailable"})
                     => Failed(w)
                  /\ (InLoop(w) /\ ~WaitsForDevice(w))
                     => ENABLED WorkerStep(w))
    /\ [][\A w \in Workers :
             FailsOrEnds(w) =>
                /\ \A o \in Workers \ {w} :
                      /\ wpc'[o] = wpc[o]
                      /\ pending'[o] = pending[o]
                      /\ tmp'[o] = tmp[o]
                /\ mpc' = mpc
                /\ running' = running
                /\ queues' = queues
         ]_vars

\* the front thread has failed and, with monitoring still on, the rear thread
\* is about to put an alert while the processing loop drains
C16_Witness ==
    /\ running
    /\ Failed(<<1, "front">>)
    /\ wpc[<<1, "rear">>] = "put_alert"
    /\ mpc = "drain"

\* the step is a step of a sensor thread (a thread moved and no execution
\* started)
ThreadStep == gen' = gen /\ wpc' # wpc

\* C17 as claimed: the history and the detection counters are changed only
\* by the processing loop; no step of a sensor thread changes them
C17_Orig ==
    [][ThreadStep => (alerts' = alerts /\ detection_count' = detection_count)
      ]_vars

\* C18 as claimed: running and the connection flags are written only on a
\* start or a stop; no step of a sensor thread changes them
C18_Orig ==
    [][ThreadStep => (running' = running /\ gopro_status' = gopro_status)
      ]_vars

\* C19 as claimed: a camera thread whose read failed has ended its loop,
\* released its capture and (where the variant has a flag) marked its source
\* as not connected
C19_Orig ==
    \A w \in Workers :
        readFailed[w] =>
            /\ wpc[w] = "done"
            /\ released[w]
            /\ variant = "gopro" => ~gopro_status[w[2]]

\* the frames of position p in queue q
HasFrameOf(q, p) == \E i \in 1..Len(q) : q[i] = p

\* C20: a gopro thread whose stream does not open sets the flag of its
\* position to False and ends: it has put no frame and no alert and its
\* counter is as it was; the execution has started the threads of the other
\* sensors all the same; a flag becomes True only by the step of a thread
\* whose stream opened
C20_OpenFailure ==
    /\ [](\A w \in Workers :
            wpc[w] = "unavailable" =>
                /\ variant = "gopro"
                /\ ~Live(w)
                /\ ~gopro_status[w[2]]
                /\ nPushed[w] = 0
                /\ ~HasFrameOf(frame_queue[w[1]], w[2])
                /\ detection_count[w[2]] = 0
                /\ \A p \in Positions \ {w[2]} : wpc[<<w[1], p>>] # "idle"
                /\ enable_audio => wpc[<<w[1], "audio">>] # "idle")
    /\ [][\A p \in Positions :
             /\ (gopro_status'[p] /\ ~gopro_status[p]) =>
                   \E w \in Workers :
                      /\ w[2] = p
                      /\ wpc[w] = "open" /\ wpc'[w] = "loop"
                      /\ cameras[p] # "absent"
             /\ \A w \in Workers :
                   (wpc'[w] = "unavailable" /\ wpc[w] # "unavailable") =>
                      /\ ~gopro_status'[w[2]]
                      /\ queues' = queues
                      /\ detection_count' = detection_count
         ]_vars

\* the front stream did not open; the rear thread is connected and has put a
\* frame
C20_Witness ==
    /\ variant = "gopro"
    /\ wpc[<<1, "front">>] = "unavailable"
    /\ gopro_status["rear"]
    /\ HasFrameOf(frame_queue[1], "rear")

\* the alert that the step put on the alert queue of thread w
AlertPut(w) == alert_queue'[w[1]][Len(alert_queue'[w[1]])]

\* C21 as claimed: in a camera cycle the observations kept for alerting are
\* those rated high or critical; each of them is put as one alert with its
\* level and the thread's position, and nothing else is put
C21_Orig ==
    [][\A w \in Workers :
          w[2] \in Positions =>
             /\ (wpc[w] = "loop" /\ wpc'[w] = "put_frame") =>
                   \E dets \in FrameInputs :
                      pending'[w] = SelectLevels(detect_dangers(variant, dets),
                                                 {"high", "critical"})
             /\ (wpc[w] = "put_frame" /\ wpc'[w] = "loop") => pending[w] = <<>>
             /\ nPushed'[w] # nPushed[w] =>
                   /\ AlertPut(w).level = Head(pending[w]).level
                   /\ AlertPut(w).position = w[2]
                   /\ pending'[w] = Tail(pending[w])
      ]_vars

\* C22 as claimed: the alert queue has a fixed capacity (any capacity up to
\* MaxAlertCap is tried): it never holds more alerts than that, and a put on
\* a full queue waits
C22_Orig ==
    \E c \in 1..MaxAlertCap :
        /\ \A g \in Gens : Len(alert_queue[g]) <= c
        /\ \A w \in Workers :
              (wpc[w] = "put_alert" /\ Len(alert_queue[w[1]]) = c)
              => ~ENABLED PutAlert(w)

\* C23 as claimed: each camera has a display queue of its own, so a camera
\* thread waits at frame_queue.put only when the frames of its own position
\* fill the queue; a frame taken by the processing loop is rendered in the
\* placeholder of its position
C23_Orig ==
    /\ \A w \in Workers :
          (w[2] \in Positions /\ wpc[w] = "put_frame" /\ ~ENABLED PutFrame(w))
          => \A i \in 1..Len(frame_queue[w[1]]) : frame_queue[w[1]][i] = w[2]
    /\ mpc = "render" => Placeholder(frame) = frame

\* the executions whose thread for source s has been started and has not
\* returned
LiveThreads(s) == {g \in Gens : Live(<<g, s>>)}

\* C24 as claimed: at any time at most one thread per sensor is live; a
\* thread of an earlier execution or run never loops next to a new one
C24_Orig == \A s \in Sources : Cardinality(LiveThreads(s)) <= 1

\* the thread is between its alert_queue.put and the end of its "+= 1"
Counting(w) == wpc[w] \in {"count_read", "count_write"}

\* C25: with one thread per source, a detection counter is at most the
\* number of alerts the source has put since the counters were initialised;
\* in the basic variant the two are equal whenever the thread is not between
\* the put and the increment
C25_CountAtMostPuts ==
    \A s \in Sources :
        /\ detection_count[s] <= nPushed[<<1, s>>]
        /\ (variant = "basic" /\ ~Counting(<<1, s>>))
           => detection_count[s] = nPushed[<<1, s>>]

\* a gopro camera thread back at its loop head that has put more alerts than
\* it has counted, and a thread that has put an alert not yet counted
C25_Witness ==
    /\ variant = "gopro"
    /\ wpc[<<1, "front">>] = "loop"
    /\ detection_count["front"] = 1
    /\ nPushed[<<1, "front">>] = 2
    /\ Counting(<<1, "audio">>)
    /\ detection_count["audio"] < nPushed[<<1, "audio">>]

\* the step is a stop click, and a start click
StopStep == running /\ ~running'
StartStep == ~running /\ running'

\* C26: a stop and a start leave the history and the counters as they are,
\* and no step empties a history or sets a counter back to 0; the first
\* display of a run that has put no alert yet shows the alert at index 0 of
\* the history left by the run before, not "All Clear"
C26_KeptAcrossRuns ==
    [][ /\ (StopStep \/ StartStep) =>
              (alerts' = alerts /\ detection_count' = detection_count)
        /\ alerts' = <<>> => alerts = <<>>
        /\ \A s \in Sources :
              detection_count'[s] = 0 => detection_count[s] = 0
        /\ (DisplayStep /\ ChannelUnused /\ alerts # <<>>) =>
              (view'.box # "safe" /\ view'.alert = alerts[1])
      ]_vars

\* a run started after a stop, with all threads of the first run ended, that
\* has the first run's history and counters and shows its latest alert
C26_Witness ==
    /\ running
    /\ gen = 2
    /\ NewRun
    /\ ChannelUnused
    /\ alerts # <<>>
    /\ \E s \in Sources : detection_count[s] > 0
    /\ mpc = "feed"
    /\ view.box # "safe"
    /\ view.alert = alerts[1]

\* audio monitoring is off for the execution that is running
AudioOff == running /\ ~enable_audio

\* C27 as claimed: an execution for which audio monitoring is off starts no
\* audio thread, and while it is off no alert of source "audio" is inserted
\* into the history and detection_count["audio"] does not change
C27_Orig ==
    [][ /\ AudioOff' => wpc'[<<gen', "audio">>] = "idle"
        /\ (AudioOff /\ AudioOff') =>
              /\ detection_count'["audio"] = detection_count["audio"]
              /\ nDequeued' # nDequeued => alerts'[1].position # "audio"
      ]_vars

====
